---- MODULE Spec2Model ----
(***************************************************************************)
(* Model of the mod-list constraint core of rimmanager:                    *)
(*   src/src/managment.rs  ModRules, ModRuleDb, ModList::find_list_issues, *)
(*                         ModList::autofix                                *)
(*   src/src/ui.rs         RimManager: the lists of the window, its events *)
(*                         and summarize_modlist_issues                    *)
(* Lists are IndexMaps keyed by PackageId; only the key order is modelled  *)
(* (the metadata values are opaque to every operation below).  Positions   *)
(* are 0-based as in the source.                                           *)
(***************************************************************************)
EXTENDS Integers, Sequences, FiniteSets, TLC

\* The package identifiers of the model (PackageId values).
Packages == {"a", "b", "c"}

\* enum ModRelation
Relations == {"Before", "After", "Dependency", "Incompatibility"}

\* A fixed enumeration of Packages, standing for the iteration order of a HashMap.
KeyOrder == <<"a", "b", "c">>

\* Bound of the enumerated inputs: the number of rules of a database.
MaxRules == 2

\* The constant of the retry budget, `100 + active.len() + inactive.len()`.
RetryBase == 100

----------------------------------------------------------------------------
\* Maps (HashMap / one level of the issue cache) as functions with a finite domain.

EmptyMap == [k \in {} |-> "Before"]

MapInsert(m, k, v) == [x \in (DOMAIN m) \cup {k} |-> IF x = k THEN v ELSE m[x]]

MapRemove(m, k) == [x \in (DOMAIN m) \ {k} |-> m[x]]

MapGetOrDefault(m, k, d) == IF k \in DOMAIN m THEN m[k] ELSE d

----------------------------------------------------------------------------
\* IndexMap operations on the key order of a list (a sequence without repetition).

Range(s) == {s[i] : i \in 1..Len(s)}

contains_key(list, k) == k \in Range(list)

\* IndexMap::get_index_of, defined when the key is present.
get_index_of(list, k) == (CHOOSE i \in 1..Len(list) : list[i] = k) - 1

\* IndexMap::get_index, defined when index < len.
get_index(list, index) == list[index + 1]

\* Mutant: the pairs at `from` and `to` change places.
move_index_swap(list, from, to) ==
    [i \in 1..Len(list) |->
        IF i = to + 1 THEN list[from + 1]
        ELSE IF i = from + 1 THEN list[to + 1]
        ELSE list[i]]

\* IndexMap::move_index(from, to): the pair at `from` ends at `to`, the pairs
\* in between shift by one towards `from`.
move_index(list, from, to) ==
    [i \in 1..Len(list) |->
        IF i = to + 1 THEN list[from + 1]
        ELSE IF from < to /\ from + 1 <= i /\ i < to + 1 THEN list[i + 1]
        ELSE IF to < from /\ to + 1 < i /\ i <= from + 1 THEN list[i - 1]
        ELSE list[i]]

\* IndexMap::shift_remove: removes the key, keeping the order of the rest.
shift_remove(list, k) == SelectSeq(list, LAMBDA x : x # k)

\* Mutant: a new key is put in front.
insert_front(list, k) == IF contains_key(list, k) THEN list ELSE <<k>> \o list

\* IndexMap::insert: a new key is appended, a present key keeps its place.
insert(list, k) == IF contains_key(list, k) THEN list ELSE Append(list, k)

----------------------------------------------------------------------------
\* ModRuleDb: a sequence (IndexMap order) of sources, each [key, sets] with
\* sets a map PackageId -> ModRules, a ModRules being
\* [start_anchor, end_anchor, rules] with rules a map PackageId -> ModRelation.

\* Mutant: the Dependency rules are not recorded beforehand.
add_dependencies_skipped(issues, rules, ord) == issues

\* ModList::find_list_issues, lines 152-160: every Dependency rule of the
\* declarer is recorded first (extend overwrites what is there).
RECURSIVE add_dependencies(_, _, _)
add_dependencies(issues, rules, ord) ==
    IF ord = << >> THEN issues
    ELSE LET t == Head(ord)
             next == IF t \in DOMAIN rules /\ rules[t] = "Dependency"
                     THEN MapInsert(issues, t, "Dependency")
                     ELSE issues
         IN  add_dependencies(next, rules, Tail(ord))

\* Mutant: the comparison of the Before arm is turned around.
resolve_relation_flipped(issues, relation, problem_package_id, package_position, problem_package_position) ==
    CASE relation = "Before" ->
            IF package_position < problem_package_position
            THEN MapInsert(issues, problem_package_id, "Before")
            ELSE issues
      [] relation = "After" ->
            IF package_position < problem_package_position
            THEN MapInsert(issues, problem_package_id, "After")
            ELSE issues
      [] relation = "Dependency" ->
            IF package_position < problem_package_position
            THEN MapInsert(MapRemove(issues, problem_package_id),
                           problem_package_id, "After")
            ELSE MapRemove(issues, problem_package_id)
      [] relation = "Incompatibility" ->
            MapInsert(issues, problem_package_id, "Incompatibility")

\* Mutant: a Dependency whose target is present is dropped without the
\* After check.
resolve_relation_no_after(issues, relation, problem_package_id, package_position, problem_package_position) ==
    CASE relation = "Before" ->
            IF package_position > problem_package_position
            THEN MapInsert(issues, problem_package_id, "Before")
            ELSE issues
      [] relation = "After" ->
            IF package_position < problem_package_position
            THEN MapInsert(issues, problem_package_id, "After")
            ELSE issues
      [] relation = "Dependency" ->
            MapRemove(issues, problem_package_id)
      [] relation = "Incompatibility" ->
            MapInsert(issues, problem_package_id, "Incompatibility")

\* Mutant: a Dependency whose target is present and placed before its
\* dependent stays recorded.
resolve_relation_kept(issues, relation, problem_package_id, package_position, problem_package_position) ==
    CASE relation = "Before" ->
            IF package_position > problem_package_position
            THEN MapInsert(issues, problem_package_id, "Before")
            ELSE issues
      [] relation = "After" ->
            IF package_position < problem_package_position
            THEN MapInsert(issues, problem_package_id, "After")
            ELSE issues
      [] relation = "Dependency" ->
            IF package_position < problem_package_position
            THEN MapInsert(MapRemove(issues, problem_package_id),
                           problem_package_id, "After")
            ELSE issues
      [] relation = "Incompatibility" ->
            MapInsert(issues, problem_package_id, "Incompatibility")

\* ModList::find_list_issues, lines 171-213: the match on the relation of one
\* rule whose target is in the list.
resolve_relation(issues, relation, problem_package_id, package_position, problem_package_position) ==
    CASE relation = "Before" ->
            IF package_position > problem_package_position
            THEN MapInsert(issues, problem_package_id, "Before")
            ELSE issues
      [] relation = "After" ->
            IF package_position < problem_package_position
            THEN MapInsert(issues, problem_package_id, "After")
            ELSE issues
      [] relation = "Dependency" ->
            IF package_position < problem_package_position
            THEN MapInsert(MapRemove(issues, problem_package_id),
                           problem_package_id, "After")
            ELSE MapRemove(issues, problem_package_id)
      [] relation = "Incompatibility" ->
            MapInsert(issues, problem_package_id, "Incompatibility")

\* ModList::find_list_issues, lines 162-214: the loop over the rules of one
\* declarer whose target is in the list, in the map's iteration order.
RECURSIVE check_rules(_, _, _, _, _)
check_rules(issues, rules, list, package_position, ord) ==
    IF ord = << >> THEN issues
    ELSE LET t == Head(ord)
             next == IF t \in DOMAIN rules /\ contains_key(list, t)
                     THEN resolve_relation(issues, rules[t], t, package_position,
                                           get_index_of(list, t))
                     ELSE issues
         IN  check_rules(next, rules, list, package_position, Tail(ord))

\* ModList::find_list_issues, lines 144-215: the loop over the rule sets of
\* one source whose declarer is in the list.
RECURSIVE check_source(_, _, _, _, _)
check_source(cache, sets, list, ord, todo) ==
    IF todo = << >> THEN cache
    ELSE LET package_id == Head(todo)
             next ==
                IF package_id \in DOMAIN sets /\ contains_key(list, package_id)
                THEN MapInsert(cache, package_id,
                        check_rules(
                            add_dependencies(
                                MapGetOrDefault(cache, package_id, EmptyMap),
                                sets[package_id].rules, ord),
                            sets[package_id].rules, list,
                            get_index_of(list, package_id), ord))
                ELSE cache
         IN  check_source(next, sets, list, ord, Tail(todo))

\* ModList::find_list_issues, line 141: the loop over the sources, in order.
RECURSIVE check_sources(_, _, _, _)
check_sources(cache, db, list, ord) ==
    IF db = << >> THEN cache
    ELSE check_sources(check_source(cache, Head(db).sets, list, ord, ord),
                       Tail(db), list, ord)

\* Mutant: the empty entries stay.
retain_all(cache) == cache

\* ModList::find_list_issues, line 219: retain the non-empty entries.
retain_non_empty(cache) ==
    [p \in {q \in DOMAIN cache : DOMAIN cache[q] # {}} |-> cache[p]]

\* Mutant: the cache is not cleared.
clear_kept(cache) == cache

\* ModList::find_list_issues, line 139: self.issue_cache.clear().
clear(cache) == EmptyMap

\* ModList::find_list_issues on the cache as the caller left it, with the
\* iteration order of the hash maps given.
find_list_issues_from(cache, db, list, ord) ==
    retain_non_empty(check_sources(clear(cache), db, list, ord))

\* ModList::find_list_issues with the iteration order of the hash maps given.
find_list_issues_in(db, list, ord) ==
    retain_non_empty(check_sources(EmptyMap, db, list, ord))

\* ModList::find_list_issues: the cache is cleared and rebuilt (line 139).
find_list_issues(db, list) == find_list_issues_in(db, list, KeyOrder)

----------------------------------------------------------------------------
\* The rule databases the specifications draw from.

\* A rule <<declarer, relation, target>>, declarer and target distinct.
AllRules == {x \in Packages \X Relations \X Packages : x[1] # x[3]}

\* At most one relation per (declarer, target): rules is a map.
Functional(S) == \A x \in S, y \in S : (x[1] = y[1] /\ x[3] = y[3]) => x = y

RuleSetsUpTo(n) ==
    {S \in UNION {{Range(f) : f \in [1..k -> AllRules]} : k \in 0..n} : Functional(S)}

\* The source holding exactly the rules of S (anchors left at their default).
SourceOf(key, S) ==
    [key |-> key,
     sets |-> [p \in {x[1] : x \in S} |->
                [start_anchor |-> FALSE, end_anchor |-> FALSE,
                 rules |-> [t \in {x[3] : x \in {y \in S : y[1] = p}} |->
                              (CHOOSE x \in S : x[1] = p /\ x[3] = t)[2]]]]]

\* Sequences without repetition over a set of packages.
RECURSIVE Perms(_)
Perms(S) ==
    IF S = {} THEN {<< >>}
    ELSE UNION {{<<x>> \o s : s \in Perms(S \ {x})} : x \in S}

\* The keys of the sources (enum ModdbType): the rules built from the mods'
\* metadata and one rule file.
SourceKeys == <<"ModBuiltRules", "rules.toml">>

\* The databases of one source.
OneSourceDatabases ==
    {<<SourceOf(SourceKeys[1], S)>> : S \in RuleSetsUpTo(MaxRules)}

\* The databases of two sources holding at most MaxRules rules together.
TwoSourceDatabases ==
    {<<SourceOf(SourceKeys[1], x[1]), SourceOf(SourceKeys[2], x[2])>> :
        x \in {y \in RuleSetsUpTo(MaxRules) \X RuleSetsUpTo(MaxRules) :
                  Cardinality(y[1]) + Cardinality(y[2]) <= MaxRules}}

\* Three packages each required to load before the next.
CycleDb ==
    <<SourceOf(SourceKeys[1],
               {<<"a", "Before", "b">>, <<"b", "Before", "c">>, <<"c", "Before", "a">>})>>

\* An ordering conflict whose repair passes over a package without issue.
DriftDb ==
    <<SourceOf(SourceKeys[1],
               {<<"a", "Before", "c">>, <<"b", "Before", "a">>,
                <<"b", "Dependency", "c">>})>>

\* s lists its packages in the order of KeyOrder.
Sorted(s) ==
    \A i \in 1..Len(s), j \in 1..Len(s) :
        i < j => get_index_of(KeyOrder, s[i]) < get_index_of(KeyOrder, s[j])

\* Every pair of disjoint lists over Packages.
ListPairs ==
    UNION {{<<a, i>> : a \in Perms(A), i \in UNION {Perms(I) : I \in SUBSET (Packages \ A)}}
           : A \in SUBSET Packages}

----------------------------------------------------------------------------
\* State.
VARIABLES
    db,                         \* ModRuleDb
    active,                     \* self: the active ModList (key order); ui.rs: active_mod_list
    inactive,                   \* inactive_list (key order); ui.rs: inactive_mod_list
    issue_cache,                \* ModListIssueCache; ui.rs: mod_list_issues
    pc,                         \* where autofix stands; "ui" between two events of the window
    infinite_loop_checker,      \* autofix local, usize
    wrapped,                    \* the usize above has wrapped below 0
    movement_reverse_tracker,   \* autofix local, map (package, problem) -> bool
    index,                      \* autofix local
    selected,                   \* the issue picked at line 75 by the last iteration
    attempts,                   \* executions of the issue-found branch that repaired
    entry_active,               \* the active list when autofix was entered
    entry_inactive,             \* the inactive list when autofix was entered
    entry_cache,                \* the cache when find_list_issues was entered
    installed,                  \* ui.rs: the supported mods a scan finds, in scan order
    game_path,                  \* ui.rs: RimManager::game_path is Some
    currently_selected_mod,     \* ui.rs: RimManager::currently_selected_mod
    merge_self,                 \* ModRules::merge: self
    merge_other,                \* ModRules::merge: other
    last_added,                 \* per rule file, what the last successful add_db read
    add_db_result,               \* the path and the result of the last call of add_db
    about_xml,                  \* ModMetaData: the About.xml whose relations are asked for
    game_version,               \* the Version of the game, a sequence of chunks
    dependency_information,     \* what get_dependency_information_for_version returned
    last_save                   \* ghost: what the last event of the window did at "Save mod ordering"

vars == <<db, active, inactive, issue_cache, pc, infinite_loop_checker, wrapped,
          movement_reverse_tracker, index, selected, attempts, entry_active,
          entry_inactive, entry_cache, installed, game_path,
          currently_selected_mod, merge_self, merge_other, last_added,
          add_db_result, about_xml, game_version, dependency_information,
          last_save>>

\* The state of the calls of ModRules::merge and ModRuleDb::add_db.
library_calls == <<merge_self, merge_other, last_added, add_db_result>>

\* ModRules::default().
DefaultModRules == [start_anchor |-> FALSE, end_anchor |-> FALSE, rules |-> EmptyMap]

\* add_db has not been called.
NoCall == [path |-> "none", result |-> "none"]

\* The package that "Save mod ordering" requires (update, lines 341-343):
\* "a" stands for ludeon.rimworld.
CorePackage == "a"

\* Nothing was saved and no alert was opened.
NoSave == [modal |-> "none", wrote |-> FALSE, list |-> << >>]

\* The state of the call of get_dependency_information_for_version.
metadata_call == <<about_xml, game_version, dependency_information>>

\* ModMetaData with every optional field None.  The ten relation fields are
\* held as one set of entries [field, version, id], version being << >> for
\* a field that is not by version.
DefaultModMetaData == [supported_versions |-> [some |-> FALSE, list |-> {}], entries |-> {}]

\* No About.xml has been asked for its relations.
NoMetadataCall ==
    /\ about_xml = DefaultModMetaData
    /\ game_version = << >>
    /\ dependency_information = EmptyMap

\* No call of merge or add_db is under way or has been made.
NoLibraryCall ==
    /\ merge_self = DefaultModRules
    /\ merge_other = DefaultModRules
    /\ last_added = EmptyMap
    /\ add_db_result = NoCall

\* The values of pc once autofix has left.
ReturnedTrue == pc = "fixed"                        \* line 135
ReturnedFalse == pc \in {"budget_exhausted",        \* line 85
                         "dependency_missing",      \* line 116
                         "incompatibility"}         \* line 120
Panicked == pc = "panicked"                         \* an unwrap or `-= 1` aborted
Left == ReturnedTrue \/ ReturnedFalse \/ Panicked

NoIssue == [package_id |-> "none", problem_package_id |-> "none", relation |-> "none"]

\* The retry budget autofix computes on entry (line 67).
EntryBudget == RetryBase + Len(entry_active) + Len(entry_inactive)

\* The count of repair attempts is kept up to one past the budget.
count_attempt(n) == IF n > EntryBudget THEN n ELSE n + 1

\* The pairs of disjoint lists that are both in the order of KeyOrder.
SortedListPairs == {l \in ListPairs : Sorted(l[1]) /\ Sorted(l[2])}

\* The state in which autofix is called: the cache is the detector's output
\* for the active list.
InitWith(d, a, i) ==
    /\ db = d
    /\ active = a
    /\ inactive = i
    /\ issue_cache = find_list_issues(d, a)
    /\ pc = "entry"
    /\ infinite_loop_checker = 0
    /\ wrapped = FALSE
    /\ movement_reverse_tracker = EmptyMap
    /\ index = 0
    /\ selected = NoIssue
    /\ attempts = 0
    /\ entry_active = a
    /\ entry_inactive = i
    /\ entry_cache = find_list_issues(d, a)
    /\ installed = << >>
    /\ game_path = FALSE
    /\ currently_selected_mod = "none"
    /\ last_save = NoSave
    /\ NoMetadataCall
    /\ NoLibraryCall

\* autofix, lines 67-69.
AutofixEntry ==
    /\ pc = "entry"
    /\ infinite_loop_checker' = RetryBase + Len(active) + Len(inactive)
    /\ movement_reverse_tracker' = EmptyMap
    /\ index' = 0
    /\ pc' = "loop"
    /\ UNCHANGED <<db, active, inactive, issue_cache, wrapped, selected, attempts,
                   entry_active, entry_inactive, entry_cache,
                   installed, game_path, currently_selected_mod, library_calls, last_save, metadata_call>>

\* autofix, lines 71 and 135: the loop ends on an empty cache.
AutofixReturnTrue ==
    /\ pc = "loop"
    /\ DOMAIN issue_cache = {}
    /\ pc' = "fixed"
    /\ UNCHANGED <<db, active, inactive, issue_cache, infinite_loop_checker, wrapped,
                   movement_reverse_tracker, index, selected, attempts,
                   entry_active, entry_inactive, entry_cache,
                   installed, game_path, currently_selected_mod, library_calls, last_save, metadata_call>>

\* Mutant: the index is not brought back to 0 at the end of the list.
next_index_unwrapped(i, list) == i + 1

\* autofix, lines 126 and 129-131: the index after a step over a package
\* without an entry.
next_index(i, list) == IF i + 1 >= Len(list) THEN 0 ELSE i + 1

\* autofix, lines 72-75 and 125-132: the package at the index has no entry.
\* Line 72's unwrap aborts when the index is past the end, line 75's when the
\* entry of the package is empty; `-= 1` on a usize that is 0 aborts with
\* overflow checks on and wraps to usize::MAX without.
AutofixAdvance ==
    /\ pc = "loop"
    /\ DOMAIN issue_cache # {}
    /\ IF index >= Len(active)
       THEN /\ pc' = "panicked"
            /\ UNCHANGED <<index, infinite_loop_checker, wrapped>>
       ELSE IF get_index(active, index) \in DOMAIN issue_cache
       THEN /\ DOMAIN issue_cache[get_index(active, index)] = {}
            /\ pc' = "panicked"
            /\ UNCHANGED <<index, infinite_loop_checker, wrapped>>
       ELSE /\ index' = next_index(index, active)
            /\ IF infinite_loop_checker = 0 /\ ~wrapped
               THEN \E overflow_checks \in BOOLEAN :
                       /\ pc' = IF overflow_checks THEN "panicked" ELSE "loop"
                       /\ wrapped' = ~overflow_checks
                       /\ UNCHANGED infinite_loop_checker
               ELSE /\ infinite_loop_checker' =
                          IF wrapped THEN infinite_loop_checker
                          ELSE infinite_loop_checker - 1
                    /\ UNCHANGED <<pc, wrapped>>
    /\ UNCHANGED <<db, active, inactive, issue_cache, movement_reverse_tracker,
                   selected, attempts, entry_active, entry_inactive, entry_cache,
                   installed, game_path, currently_selected_mod, library_calls, last_save, metadata_call>>

\* The package at the index has a cache entry and issue is the pair that
\* `issues.iter().next()` yields (lines 72-75): any pair of the entry.
Picks(issue) ==
    /\ pc = "loop"
    /\ DOMAIN issue_cache # {}
    /\ index < Len(active)
    /\ issue.package_id = get_index(active, index)
    /\ issue.package_id \in DOMAIN issue_cache
    /\ issue.problem_package_id \in DOMAIN issue_cache[issue.package_id]
    /\ issue.relation = issue_cache[issue.package_id][issue.problem_package_id]

Issues == [package_id : Packages, problem_package_id : Packages, relation : Relations]

\* line 84
BudgetIsZero == infinite_loop_checker = 0 /\ ~wrapped

\* autofix, lines 83-86.
AutofixBudgetExhausted ==
    \E issue \in Issues :
        /\ Picks(issue)
        /\ BudgetIsZero
        /\ selected' = issue
        /\ pc' = "budget_exhausted"
        /\ UNCHANGED <<db, active, inactive, issue_cache, infinite_loop_checker,
                       wrapped, movement_reverse_tracker, index, attempts,
                       entry_active, entry_inactive, entry_cache,
                   installed, game_path, currently_selected_mod, library_calls, last_save, metadata_call>>

\* Mutant: the cache is cleared and not rebuilt.
rebuilt_cache_cleared(d, list) == EmptyMap

\* Mutant: the cache is left as it was before the list changed.
rebuilt_cache_stale(d, list) == issue_cache

\* autofix, line 124: the cache is rebuilt from the list as it now is.
rebuilt_cache(d, list) == find_list_issues(d, list)

\* Mutant: nothing is moved.
moved_list_unmoved(list, flag, package_id, problem_package_id) == list

\* Mutant: the two branches of the flag are exchanged.
moved_list_exchanged(list, flag, package_id, problem_package_id) ==
    IF flag
    THEN move_index(list, get_index_of(list, problem_package_id),
                    get_index_of(list, package_id))
    ELSE move_index(list, get_index_of(list, package_id),
                    get_index_of(list, problem_package_id))

\* autofix, lines 95-105: which pair moves where, by the flag of the pair.
moved_list(list, flag, package_id, problem_package_id) ==
    IF flag
    THEN move_index(list, get_index_of(list, package_id),
                    get_index_of(list, problem_package_id))
    ELSE move_index(list, get_index_of(list, problem_package_id),
                    get_index_of(list, package_id))

\* autofix, lines 91-93: the key of the flag.
tracker_key(package_id, problem_package_id) == <<package_id, problem_package_id>>

\* autofix, lines 90-108 and 124: a Before or After issue is repaired by a
\* move, then the cache is rebuilt.  The unwraps of lines 97-103 abort when
\* the target is not in the list.
AutofixMove ==
    \E issue \in Issues :
        /\ Picks(issue)
        /\ ~BudgetIsZero
        /\ issue.relation \in {"Before", "After"}
        /\ selected' = issue
        /\ IF ~contains_key(active, issue.problem_package_id)
           THEN /\ pc' = "panicked"
                /\ UNCHANGED <<active, issue_cache, movement_reverse_tracker, attempts>>
           ELSE LET key == tracker_key(issue.package_id, issue.problem_package_id)
                    flag == MapGetOrDefault(movement_reverse_tracker, key, FALSE)
                IN  /\ active' = moved_list(active, flag, issue.package_id,
                                            issue.problem_package_id)
                    /\ movement_reverse_tracker' =
                          MapInsert(movement_reverse_tracker, key, ~flag)
                    /\ issue_cache' = rebuilt_cache(db, active')
                    /\ attempts' = count_attempt(attempts)
                    /\ UNCHANGED pc
        /\ UNCHANGED <<db, inactive, infinite_loop_checker, wrapped, index,
                       entry_active, entry_inactive, entry_cache,
                   installed, game_path, currently_selected_mod, library_calls, last_save, metadata_call>>

\* Mutant: the target is inserted without the check of the inactive list.
AutofixPromote_unchecked ==
    \E issue \in Issues :
        /\ Picks(issue)
        /\ ~BudgetIsZero
        /\ issue.relation = "Dependency"
        /\ selected' = issue
        /\ active' = insert(active, issue.problem_package_id)
        /\ inactive' = shift_remove(inactive, issue.problem_package_id)
        /\ issue_cache' = rebuilt_cache(db, active')
        /\ attempts' = count_attempt(attempts)
        /\ UNCHANGED <<db, pc, infinite_loop_checker, wrapped,
                       movement_reverse_tracker, index, entry_active, entry_inactive, entry_cache,
                   installed, game_path, currently_selected_mod, library_calls, last_save, metadata_call>>

\* autofix, lines 109-114 and 124: a Dependency whose target is in the
\* inactive list is promoted, then the cache is rebuilt.
AutofixPromote ==
    \E issue \in Issues :
        /\ Picks(issue)
        /\ ~BudgetIsZero
        /\ issue.relation = "Dependency"
        /\ contains_key(inactive, issue.problem_package_id)
        /\ selected' = issue
        /\ active' = insert(active, issue.problem_package_id)
        /\ inactive' = shift_remove(inactive, issue.problem_package_id)
        /\ issue_cache' = rebuilt_cache(db, active')
        /\ attempts' = count_attempt(attempts)
        /\ UNCHANGED <<db, pc, infinite_loop_checker, wrapped,
                       movement_reverse_tracker, index, entry_active, entry_inactive, entry_cache,
                   installed, game_path, currently_selected_mod, library_calls, last_save, metadata_call>>

\* autofix, lines 115-117: the target of the Dependency is not in the inactive list.
AutofixDependencyMissing ==
    \E issue \in Issues :
        /\ Picks(issue)
        /\ ~BudgetIsZero
        /\ issue.relation = "Dependency"
        /\ ~contains_key(inactive, issue.problem_package_id)
        /\ selected' = issue
        /\ pc' = "dependency_missing"
        /\ UNCHANGED <<db, active, inactive, issue_cache, infinite_loop_checker,
                       wrapped, movement_reverse_tracker, index, attempts,
                       entry_active, entry_inactive, entry_cache,
                   installed, game_path, currently_selected_mod, library_calls, last_save, metadata_call>>

\* Mutant: the incompatible package is moved to the inactive list.
AutofixIncompatibility_resolves ==
    \E issue \in Issues :
        /\ Picks(issue)
        /\ ~BudgetIsZero
        /\ issue.relation = "Incompatibility"
        /\ selected' = issue
        /\ active' = shift_remove(active, issue.problem_package_id)
        /\ inactive' = insert(inactive, issue.problem_package_id)
        /\ issue_cache' = rebuilt_cache(db, active')
        /\ attempts' = count_attempt(attempts)
        /\ UNCHANGED <<db, pc, infinite_loop_checker, wrapped,
                       movement_reverse_tracker, index, entry_active, entry_inactive, entry_cache,
                   installed, game_path, currently_selected_mod, library_calls, last_save, metadata_call>>

\* autofix, lines 119-121.
AutofixIncompatibility ==
    \E issue \in Issues :
        /\ Picks(issue)
        /\ ~BudgetIsZero
        /\ issue.relation = "Incompatibility"
        /\ selected' = issue
        /\ pc' = "incompatibility"
        /\ UNCHANGED <<db, active, inactive, issue_cache, infinite_loop_checker,
                       wrapped, movement_reverse_tracker, index, attempts,
                       entry_active, entry_inactive, entry_cache,
                   installed, game_path, currently_selected_mod, library_calls, last_save, metadata_call>>

\* One call of autofix.  The packages are interchangeable, so a database of
\* at most MaxRules rules is met with both lists in the order of KeyOrder
\* (its rules range over every direction); CycleDb and DriftDb are met with
\* every pair of disjoint lists.
Init ==
    \/ \E d \in OneSourceDatabases, l \in SortedListPairs : InitWith(d, l[1], l[2])
    \/ \E d \in {CycleDb, DriftDb}, l \in ListPairs : InitWith(d, l[1], l[2])

Next ==
    \/ AutofixEntry
    \/ AutofixReturnTrue
    \/ AutofixAdvance
    \/ AutofixBudgetExhausted
    \/ AutofixMove
    \/ AutofixPromote
    \/ AutofixDependencyMissing
    \/ AutofixIncompatibility

Spec == Init /\ [][Next]_vars

----------------------------------------------------------------------------
\* One call of find_list_issues on a database of one or two sources and a
\* list in any order.

Lists == UNION {Perms(A) : A \in SUBSET Packages}

InitDetect ==
    \E d \in OneSourceDatabases \cup TwoSourceDatabases, l \in Lists :
        /\ db = d
        /\ active = l
        /\ inactive = << >>
        /\ issue_cache = EmptyMap
        /\ pc = "detect"
        /\ infinite_loop_checker = 0
        /\ wrapped = FALSE
        /\ movement_reverse_tracker = EmptyMap
        /\ index = 0
        /\ selected = NoIssue
        /\ attempts = 0
        /\ entry_active = l
        /\ entry_inactive = << >>
        /\ entry_cache = EmptyMap
        /\ installed = << >>
        /\ game_path = FALSE
        /\ currently_selected_mod = "none"
        /\ last_save = NoSave
        /\ NoMetadataCall
        /\ NoLibraryCall

\* find_list_issues, lines 138-220, on the list `active`.
Detect ==
    /\ pc = "detect"
    /\ issue_cache' = find_list_issues(db, active)
    /\ pc' = "detected"
    /\ UNCHANGED <<db, active, inactive, infinite_loop_checker, wrapped,
                   movement_reverse_tracker, index, selected, attempts,
                   entry_active, entry_inactive, entry_cache,
                   installed, game_path, currently_selected_mod, library_calls, last_save, metadata_call>>

NextDetect == Detect

SpecDetect == InitDetect /\ [][NextDetect]_vars

----------------------------------------------------------------------------
\* One call of find_list_issues on a cache that an earlier call has filled,
\* with the hash maps of the rules iterated in any order.

\* What an earlier call may have left in the cache: nothing, or the issues
\* of another list or database.
PriorCaches ==
    {EmptyMap,
     MapInsert(MapInsert(EmptyMap, "a", MapInsert(EmptyMap, "b", "Incompatibility")),
               "b", MapInsert(EmptyMap, "c", "Dependency"))}

InitRedetect ==
    \E d \in OneSourceDatabases \cup TwoSourceDatabases, l \in Lists,
       c \in PriorCaches :
        /\ db = d
        /\ active = l
        /\ inactive = << >>
        /\ issue_cache = c
        /\ pc = "detect"
        /\ infinite_loop_checker = 0
        /\ wrapped = FALSE
        /\ movement_reverse_tracker = EmptyMap
        /\ index = 0
        /\ selected = NoIssue
        /\ attempts = 0
        /\ entry_active = l
        /\ entry_inactive = << >>
        /\ entry_cache = c
        /\ installed = << >>
        /\ game_path = FALSE
        /\ currently_selected_mod = "none"
        /\ last_save = NoSave
        /\ NoMetadataCall
        /\ NoLibraryCall

\* find_list_issues, lines 138-220, on the list `active`: the cache holds
\* what the last call left and the hash maps iterate in any order.
Redetect ==
    /\ pc = "detect"
    /\ \E ord \in Perms(Packages) :
          issue_cache' = find_list_issues_from(issue_cache, db, active, ord)
    /\ pc' = "detected"
    /\ UNCHANGED <<db, active, inactive, infinite_loop_checker, wrapped,
                   movement_reverse_tracker, index, selected, attempts,
                   entry_active, entry_inactive, entry_cache,
                   installed, game_path, currently_selected_mod, library_calls, last_save, metadata_call>>

NextRedetect == Redetect

SpecRedetect == InitRedetect /\ [][NextRedetect]_vars

----------------------------------------------------------------------------
\* Notions the properties below are stated with.

\* The package at the index has a cache entry: the iteration picks an issue.
HasIssue ==
    /\ pc = "loop"
    /\ DOMAIN issue_cache # {}
    /\ index < Len(active)
    /\ get_index(active, index) \in DOMAIN issue_cache

\* The relation the cache records for (a -> b), "none" when it records none.
IssueOf(cache, a, b) ==
    IF a \in DOMAIN cache /\ b \in DOMAIN cache[a] THEN cache[a][b] ELSE "none"

\* The rules <<source, relation>> that the sources of d declare for (a -> b).
Declared(d, a, b) ==
    {<<k, d[k].sets[a].rules[b]>> :
        k \in {i \in 1..Len(d) : a \in DOMAIN d[i].sets
                                 /\ b \in DOMAIN d[i].sets[a].rules}}

\* d declares exactly one rule for (a -> b), and it is rel.
DeclaresOnly(d, a, b, rel) ==
    /\ Cardinality(Declared(d, a, b)) = 1
    /\ \E x \in Declared(d, a, b) : x[2] = rel

\* The database of one source whose only rule is <<a, rel, b>>.
OneRuleDb(a, rel, b) == <<SourceOf(SourceKeys[1], {<<a, rel, b>>})>>

----------------------------------------------------------------------------
\* C1: with the cycle a Before b, b Before c, c Before a and the three
\* packages active in any order, autofix ends by returning false within its
\* retry budget: it never returns true or aborts, and it makes no more
\* repair attempts than the budget computed on entry.
C1_CycleReturnsFalseWithinBudget ==
    (db = CycleDb /\ Len(entry_active) = 3)
        => /\ ~ReturnedTrue
           /\ ~Panicked
           /\ attempts <= EntryBudget

\* C2: one call of autofix makes at most 100 + |active| + |inactive| repair
\* attempts (moves or promotions), the sizes taken on entry.
C2_AttemptsWithinBudget == attempts <= EntryBudget

\* C3: autofix never ends abnormally: the retry counter is never decremented
\* at 0 (neither an overflow abort nor a wrap to usize::MAX) and no unwrap of
\* a position lookup fails.
C3_NoAbnormalExit == ~Panicked /\ ~wrapped

\* C4: when autofix has returned true the issue cache is empty and a fresh
\* find_list_issues on the final active list yields the empty cache.
C4_TrueMeansNoIssue ==
    ReturnedTrue =>
        /\ DOMAIN issue_cache = {}
        /\ find_list_issues(db, active) = EmptyMap

\* C4 witness: autofix returned true after at least one repair.
C4_Witness == ReturnedTrue /\ attempts > 0

\* C5, in every state: once autofix has returned at line 120 the issue it
\* picked is an Incompatibility that the cache still holds; and for the
\* database whose only rule is p Incompatibility q, both active, autofix
\* repairs nothing and can only end by returning false at line 120 with
\* (p -> q) still in the cache.
C5_State ==
    /\ pc = "incompatibility" =>
          /\ selected.relation = "Incompatibility"
          /\ IssueOf(issue_cache, selected.package_id, selected.problem_package_id)
                = "Incompatibility"
    /\ \A p \in Packages : \A q \in Packages \ {p} :
          (/\ db = OneRuleDb(p, "Incompatibility", q)
           /\ contains_key(entry_active, p)
           /\ contains_key(entry_active, q))
              => /\ attempts = 0
                 /\ active = entry_active /\ inactive = entry_inactive
                 /\ IssueOf(issue_cache, p, q) = "Incompatibility"
                 /\ Left => pc = "incompatibility"

\* C5, in every step: an iteration that picks an Incompatibility issue
\* returns false in that step and changes neither list nor the cache.
C5_Step ==
    (HasIssue /\ selected'.relation = "Incompatibility")
        => (ReturnedFalse' /\ UNCHANGED <<active, inactive, issue_cache>>)

\* C5: Incompatibility is never auto-resolved.
C5_IncompatibilityNeverResolved == [](C5_State) /\ [][C5_Step]_vars

\* C5 witness: autofix returned false on a p Incompatibility q database after
\* passing over a package without issue.
C5_Witness ==
    /\ pc = "incompatibility"
    /\ index > 0
    /\ \E p \in Packages : \E q \in Packages \ {p} : db = OneRuleDb(p, "Incompatibility", q)

\* C6: when the only rule is p Dependency q, p is active and q inactive on
\* entry, autofix does not fail and repairs at most twice, and once it has
\* returned true q is in the active list before p, is no longer in the
\* inactive list, and the cache is empty.
C6_DependencyPromoted ==
    \A p \in Packages : \A q \in Packages \ {p} :
        (/\ db = OneRuleDb(p, "Dependency", q)
         /\ contains_key(entry_active, p)
         /\ contains_key(entry_inactive, q)
         /\ pc # "entry")
            => /\ ~ReturnedFalse
               /\ ~Panicked
               /\ attempts <= 2
               /\ infinite_loop_checker > 0
               /\ ReturnedTrue =>
                    /\ contains_key(active, q)
                    /\ get_index_of(active, q) < get_index_of(active, p)
                    /\ ~contains_key(inactive, q)
                    /\ DOMAIN issue_cache = {}

\* C6 witness: such a call has returned true.
C6_Witness ==
    /\ ReturnedTrue
    /\ \E p \in Packages : \E q \in Packages \ {p} :
          /\ db = OneRuleDb(p, "Dependency", q)
          /\ contains_key(entry_active, p)
          /\ contains_key(entry_inactive, q)
          /\ contains_key(active, q)

\* C7: an iteration that picks a Dependency issue whose target is not in the
\* inactive list returns false in that step and changes neither list nor the
\* cache.
C7_Step ==
    (/\ HasIssue
     /\ selected'.relation = "Dependency"
     /\ ~contains_key(inactive, selected'.problem_package_id))
        => (ReturnedFalse' /\ UNCHANGED <<active, inactive, issue_cache>>)

C7_MissingDependencyFails == [][C7_Step]_vars

\* C7 witness: autofix returned false at line 116 after earlier repairs,
\* whose changes to the lists are still there.
C7_Witness ==
    /\ pc = "dependency_missing"
    /\ attempts > 0
    /\ active # entry_active

\* C8: when the database declares exactly one rule for (a -> b), both in the
\* list, find_list_issues records (a -> b, Before) exactly when the rule is
\* Before and pos(a) > pos(b), (a -> b, After) exactly when it is After and
\* pos(a) < pos(b), and nothing for the pair otherwise.
C8_OrderingIssues ==
    pc = "detected" =>
        \A a \in Range(active) : \A b \in Range(active) \ {a} :
            /\ DeclaresOnly(db, a, b, "Before") =>
                  IssueOf(issue_cache, a, b) =
                     IF get_index_of(active, a) > get_index_of(active, b)
                     THEN "Before" ELSE "none"
            /\ DeclaresOnly(db, a, b, "After") =>
                  IssueOf(issue_cache, a, b) =
                     IF get_index_of(active, a) < get_index_of(active, b)
                     THEN "After" ELSE "none"
            /\ IssueOf(issue_cache, a, b) = "Before" =>
                  (\E x \in Declared(db, a, b) : x[2] = "Before")

\* C8 witness: the list <<b, a>> under the one rule a Before b gives
\* {a: {b: Before}}.
C8_Witness ==
    /\ pc = "detected"
    /\ db = OneRuleDb("a", "Before", "b")
    /\ active = <<"b", "a">>
    /\ issue_cache = [x \in {"a"} |-> [y \in {"b"} |-> "Before"]]

\* C9: when the database declares exactly the rule a Dependency c for the
\* pair and a is in the list, find_list_issues records (a -> c, Dependency)
\* when c is not in the list, nothing when c is before a, and (a -> c, After)
\* when c is after a.
C9_DependencyIssues ==
    pc = "detected" =>
        \A a \in Range(active) : \A c \in Packages \ {a} :
            DeclaresOnly(db, a, c, "Dependency") =>
                IssueOf(issue_cache, a, c) =
                    IF ~contains_key(active, c) THEN "Dependency"
                    ELSE IF get_index_of(active, a) < get_index_of(active, c)
                         THEN "After" ELSE "none"

\* C9 witness: the list <<a, c>> under the one rule a Dependency c gives
\* {a: {c: After}}.
C9_Witness ==
    /\ pc = "detected"
    /\ db = OneRuleDb("a", "Dependency", "c")
    /\ active = <<"a", "c">>
    /\ issue_cache = [x \in {"a"} |-> [y \in {"c"} |-> "After"]]

\* C10: whenever some source declares a Incompatibility b and both are in
\* the list, the cache built by find_list_issues holds
\* (a -> b, Incompatibility).
C10_IncompatibilityRecorded ==
    pc = "detected" =>
        \A a \in Range(active) : \A b \in Range(active) \ {a} :
            (\E x \in Declared(db, a, b) : x[2] = "Incompatibility")
                => IssueOf(issue_cache, a, b) = "Incompatibility"

----------------------------------------------------------------------------
\* The positional condition of a relation holds for the declarer at position
\* pa and the target at position pb: Before wants the declarer first, After
\* and Dependency want the target first, Incompatibility is never met by two
\* packages that are both in the list.
Satisfied(rel, pa, pb) ==
    CASE rel = "Before" -> pa < pb
      [] rel = "After" -> pa > pb
      [] rel = "Dependency" -> pa > pb
      [] rel = "Incompatibility" -> FALSE

\* Every relation that a source of d declares between two packages of the
\* list meets its positional condition.
AllPresentSatisfied(d, list) ==
    \A a \in Range(list) : \A b \in Range(list) \ {a} :
        \A x \in Declared(d, a, b) :
            Satisfied(x[2], get_index_of(list, a), get_index_of(list, b))

\* Every Dependency that a source of d declares for a package of the list
\* has its target in the list.
DependencyTargetsPresent(d, list) ==
    \A a \in Range(list) : \A b \in Packages \ {a} :
        (\E x \in Declared(d, a, b) : x[2] = "Dependency")
            => contains_key(list, b)

\* C11 as stated: when every relation between two packages of the list
\* meets its positional condition, find_list_issues returns an empty cache.
C11_NoFalsePositives_AsStated ==
    (pc = "detected" /\ AllPresentSatisfied(db, active))
        => issue_cache = EmptyMap

\* C11: when every relation between two packages of the list meets its
\* positional condition and every Dependency target of a listed declarer is
\* in the list, find_list_issues returns an empty cache.
C11_NoFalsePositives ==
    (/\ pc = "detected"
     /\ AllPresentSatisfied(db, active)
     /\ DependencyTargetsPresent(db, active))
        => issue_cache = EmptyMap

\* C11 witness: a list with a satisfied Before rule and a satisfied
\* Dependency rule between its packages has been checked and the cache is
\* empty.
C11_Witness ==
    /\ pc = "detected"
    /\ AllPresentSatisfied(db, active)
    /\ DependencyTargetsPresent(db, active)
    /\ \E a \in Range(active) : \E b \in Range(active) \ {a} :
          \E x \in Declared(db, a, b) : x[2] = "Before"
    /\ \E a \in Range(active) : \E b \in Range(active) \ {a} :
          \E x \in Declared(db, a, b) : x[2] = "Dependency"
    /\ issue_cache = EmptyMap

----------------------------------------------------------------------------
\* C12: detection is deterministic: whatever the cache held when the call
\* was entered and in whatever order the hash maps of the rules were
\* iterated, the cache that find_list_issues has built is the one mapping
\* that the database and the list determine (the result on an empty cache
\* with the keys in their sorted order).
C12_DetectionDeterministic ==
    pc = "detected" => issue_cache = find_list_issues(db, active)

\* C12 witness: a call has built a cache with an issue and with no entry for
\* a declarer whose leftover issues were in the cache when it was entered.
C12_Witness ==
    /\ pc = "detected"
    /\ issue_cache # EmptyMap
    /\ \E p \in DOMAIN entry_cache : p \notin DOMAIN issue_cache

----------------------------------------------------------------------------
\* The list violates the relation rel that a source declares for (a -> b),
\* a being in the list: a Dependency whose target is missing, or a relation
\* between two packages of the list whose positional condition fails.
Violated(rel, a, b, list) ==
    IF contains_key(list, b)
    THEN ~Satisfied(rel, get_index_of(list, a), get_index_of(list, b))
    ELSE rel = "Dependency"

\* What the cache records for a violated relation: a Dependency whose target
\* is in the list before its dependent is recorded as After.
RecordedAs(rel, b, list) ==
    IF rel = "Dependency" /\ contains_key(list, b) THEN "After" ELSE rel

\* C13: the sources are evaluated as a union: every relation that some
\* source declares for a package of the list and that the list violates is
\* in the cache built by find_list_issues, whatever the other sources
\* declare for the same declarer and target.
C13_SourcesAreUnion ==
    pc = "detected" =>
        \A a \in Range(active) : \A b \in Packages \ {a} :
            \A x \in Declared(db, a, b) :
                Violated(x[2], a, b, active)
                    => IssueOf(issue_cache, a, b) = RecordedAs(x[2], b, active)

----------------------------------------------------------------------------
\* C14: inside autofix the cache is never stale when it is read: whenever
\* the loop condition is evaluated or the issues of the current package are
\* looked up, the cache is what find_list_issues yields for the active list
\* and the database as they now are.
C14_CacheFreshInLoop ==
    pc \in {"entry", "loop"} => issue_cache = find_list_issues(db, active)

\* C14 witness: the loop is about to read the cache after a repair has
\* changed the active list, and issues remain.
C14_Witness ==
    /\ pc = "loop"
    /\ attempts > 0
    /\ active # entry_active
    /\ issue_cache # EmptyMap

----------------------------------------------------------------------------
\* The window of the application (ui.rs).  The lists of RimManager are kept
\* by their key order; the ModInfo of a key is the one the scan built, and
\* its dependency_info is held by db under the source of the mods' metadata.

\* ModInfo::dependency_info of a mod.
dependency_info(d, mod_id) ==
    IF mod_id \in DOMAIN d[1].sets THEN d[1].sets[mod_id].rules ELSE EmptyMap

\* summarize_modlist_issues, lines 527-533: the Dependency relations of the
\* inspected mod are recorded first.
RECURSIVE summarize_dependencies(_, _, _)
summarize_dependencies(issues, info, ord) ==
    IF ord = << >> THEN issues
    ELSE LET other_mod_id == Head(ord)
             next == IF other_mod_id \in DOMAIN info /\ info[other_mod_id] = "Dependency"
                     THEN MapInsert(issues, other_mod_id, "Dependency")
                     ELSE issues
         IN  summarize_dependencies(next, info, Tail(ord))

\* Mutant: a Dependency whose target is in the list is removed without the
\* After check.
summarize_relation_no_after(issues, other_mod_info, other_mod_id, inspecting_mod_index, other_mod_position) ==
    CASE other_mod_info = "Before" ->
            IF inspecting_mod_index > other_mod_position
            THEN MapInsert(issues, other_mod_id, "Before")
            ELSE issues
      [] other_mod_info = "After" ->
            IF inspecting_mod_index < other_mod_position
            THEN MapInsert(issues, other_mod_id, "After")
            ELSE issues
      [] other_mod_info = "Dependency" ->
            MapRemove(issues, other_mod_id)
      [] other_mod_info = "Incompatibility" ->
            MapInsert(issues, other_mod_id, "Incompatibility")

\* summarize_modlist_issues, lines 543-575: the match on one relation whose
\* target is in the list.
summarize_relation(issues, other_mod_info, other_mod_id, inspecting_mod_index, other_mod_position) ==
    CASE other_mod_info = "Before" ->
            IF inspecting_mod_index > other_mod_position
            THEN MapInsert(issues, other_mod_id, "Before")
            ELSE issues
      [] other_mod_info = "After" ->
            IF inspecting_mod_index < other_mod_position
            THEN MapInsert(issues, other_mod_id, "After")
            ELSE issues
      [] other_mod_info = "Dependency" ->
            IF inspecting_mod_index < other_mod_position
            THEN MapInsert(MapRemove(issues, other_mod_id), other_mod_id, "After")
            ELSE MapRemove(issues, other_mod_id)
      [] other_mod_info = "Incompatibility" ->
            MapInsert(issues, other_mod_id, "Incompatibility")

\* summarize_modlist_issues, lines 536-576: the relations whose target is in
\* the list, in the iteration order of dependency_info.
RECURSIVE summarize_present(_, _, _, _, _)
summarize_present(issues, info, modlist, inspecting_mod_index, ord) ==
    IF ord = << >> THEN issues
    ELSE LET other_mod_id == Head(ord)
             next == IF other_mod_id \in DOMAIN info /\ contains_key(modlist, other_mod_id)
                     THEN summarize_relation(issues, info[other_mod_id], other_mod_id,
                                             inspecting_mod_index,
                                             get_index_of(modlist, other_mod_id))
                     ELSE issues
         IN  summarize_present(next, info, modlist, inspecting_mod_index, Tail(ord))

\* summarize_modlist_issues, lines 523-582: the loop over the mods of the
\* list; an entry left empty is removed (lines 579-581).
RECURSIVE summarize_mods(_, _, _, _)
summarize_mods(data, d, modlist, inspecting_mod_index) ==
    IF inspecting_mod_index >= Len(modlist) THEN data
    ELSE LET inspecting_mod_id == get_index(modlist, inspecting_mod_index)
             info == dependency_info(d, inspecting_mod_id)
             issues == summarize_present(
                          summarize_dependencies(
                              MapGetOrDefault(data, inspecting_mod_id, EmptyMap),
                              info, KeyOrder),
                          info, modlist, inspecting_mod_index, KeyOrder)
             next == IF issues = EmptyMap
                     THEN MapRemove(data, inspecting_mod_id)
                     ELSE MapInsert(data, inspecting_mod_id, issues)
         IN  summarize_mods(next, d, modlist, inspecting_mod_index + 1)

\* summarize_modlist_issues, lines 516-584.
summarize_modlist_issues(d, modlist) == summarize_mods(EmptyMap, d, modlist, 0)

\* update, lines 416-427: the detail panel looks the selected mod up in both
\* lists and aborts at unreachable!() when it is in neither.
detail_panel(selection, active_mod_list, inactive_mod_list) ==
    IF /\ selection # "none"
       /\ ~contains_key(active_mod_list, selection)
       /\ ~contains_key(inactive_mod_list, selection)
    THEN "unreachable"
    ELSE "ui"

\* The locals and the entry values of autofix, which the window never sets.
autofix_locals ==
    <<infinite_loop_checker, wrapped, movement_reverse_tracker, index, selected,
      attempts, entry_cache>>

\* Bound of the enumerated inputs: the number of relations in the metadata
\* of the mods on disk.
MaxMetadataRules == 1

\* The dependency_info of the mods on disk, held as the one source
\* ModBuiltRules.
InstalledMetadata ==
    {<<SourceOf(SourceKeys[1], S)>> : S \in RuleSetsUpTo(MaxMetadataRules)}

\* What a scan can find: the supported mods of an installation, in the order
\* of the directory listing (taken to be the order of KeyOrder).
Installations == {l \in Lists : Sorted(l)}

\* How a scan of the mods `found` can end: it returns after all of them, or
\* a read fails after `scanned` of them.
ScanOutcomes(found) ==
    {[fails |-> TRUE, scanned |-> n] : n \in 0..Len(found)}
        \cup {[fails |-> FALSE, scanned |-> Len(found)]}

\* RimManager::default(): no path, empty lists, no selection, no issues.
InitUI ==
    \E d \in InstalledMetadata :
        /\ db = d
        /\ active = << >>
        /\ inactive = << >>
        /\ issue_cache = EmptyMap
        /\ pc = "ui"
        /\ infinite_loop_checker = 0
        /\ wrapped = FALSE
        /\ movement_reverse_tracker = EmptyMap
        /\ index = 0
        /\ selected = NoIssue
        /\ attempts = 0
        /\ entry_active = << >>
        /\ entry_inactive = << >>
        /\ entry_cache = EmptyMap
        /\ installed = << >>
        /\ game_path = FALSE
        /\ currently_selected_mod = "none"
        /\ last_save = NoSave
        /\ NoMetadataCall
        /\ NoLibraryCall

\* Mutant: the selection is not cleared.
refresh_mod_metadata_keeps(found, outcome) ==
    /\ active' = << >>
    /\ inactive' = SubSeq(found, 1, outcome.scanned)
    /\ UNCHANGED currently_selected_mod
    /\ pc' = IF outcome.fails THEN "panicked"
             ELSE detail_panel(currently_selected_mod', active', inactive')
    /\ entry_active' = << >>
    /\ entry_inactive' = inactive'
    /\ UNCHANGED issue_cache

\* refresh_mod_metadata, lines 67-140, on an installation whose supported
\* mods are `found`: both lists and the selection are cleared, then every
\* mod is inserted into the inactive list, unless a read fails midway and
\* the unwrap of the caller aborts.  mod_list_issues is
\* not touched.
refresh_mod_metadata(found, outcome) ==
    /\ active' = << >>
    /\ inactive' = SubSeq(found, 1, outcome.scanned)
    /\ currently_selected_mod' = "none"
    /\ pc' = IF outcome.fails THEN "panicked"
             ELSE detail_panel(currently_selected_mod', active', inactive')
    /\ entry_active' = << >>
    /\ entry_inactive' = inactive'
    /\ UNCHANGED issue_cache

\* update, lines 305-310: the button "Scan installation".
ScanInstallation ==
    /\ pc = "ui"
    /\ game_path
    /\ \E outcome \in ScanOutcomes(installed) :
          refresh_mod_metadata(installed, outcome)
    /\ UNCHANGED <<db, installed, game_path, autofix_locals, library_calls, metadata_call>>
    /\ last_save' = NoSave

\* update, lines 484-494: a valid game path is picked, then the mods of that
\* installation are scanned.
PickGamePath ==
    /\ pc = "ui"
    /\ game_path' = TRUE
    /\ \E found \in Installations :
          /\ installed' = found
          /\ \E outcome \in ScanOutcomes(found) :
                refresh_mod_metadata(found, outcome)
    /\ UNCHANGED <<db, autofix_locals, library_calls, metadata_call>>
    /\ last_save' = NoSave

\* update, lines 376-391 and 498-508: a valid Steam prefix is picked (the
\* button needs a game path), then the mods are scanned again.
PickSteamPath ==
    /\ pc = "ui"
    /\ game_path
    /\ \E found \in Installations :
          /\ installed' = found
          /\ \E outcome \in ScanOutcomes(found) :
                refresh_mod_metadata(found, outcome)
    /\ UNCHANGED <<db, game_path, autofix_locals, library_calls, metadata_call>>
    /\ last_save' = NoSave

\* Mutant: an activated mod is not removed from the inactive list.
RECURSIVE activate_known_kept(_, _, _)
activate_known_kept(active_mod_list, inactive_mod_list, ordering) ==
    IF ordering = << >> THEN <<active_mod_list, inactive_mod_list>>
    ELSE LET mod_id == Head(ordering)
         IN  IF contains_key(inactive_mod_list, mod_id)
             THEN activate_known_kept(insert(active_mod_list, mod_id),
                                      inactive_mod_list, Tail(ordering))
             ELSE activate_known_kept(active_mod_list, inactive_mod_list, Tail(ordering))

\* update, lines 324-330: the mods of the ordering that the scan found are
\* moved to the active list, in the order of the ordering.
RECURSIVE activate_known(_, _, _)
activate_known(active_mod_list, inactive_mod_list, ordering) ==
    IF ordering = << >> THEN <<active_mod_list, inactive_mod_list>>
    ELSE LET mod_id == Head(ordering)
         IN  IF contains_key(inactive_mod_list, mod_id)
             THEN activate_known(insert(active_mod_list, mod_id),
                                 shift_remove(inactive_mod_list, mod_id),
                                 Tail(ordering))
             ELSE activate_known(active_mod_list, inactive_mod_list, Tail(ordering))

\* What the button "Load mod ordering" can meet: ModsConfig.xml cannot be
\* read; it holds `ordering` and the scan fails midway; it holds `ordering`
\* and the scan returns.
LoadInputs(found) ==
    {[config_read |-> FALSE, outcome |-> o, ordering |-> << >>] :
        o \in {x \in ScanOutcomes(found) : ~x.fails}}
    \cup {[config_read |-> TRUE, outcome |-> o, ordering |-> << >>] :
        o \in {x \in ScanOutcomes(found) : x.fails}}
    \cup {[config_read |-> TRUE, outcome |-> o, ordering |-> l] :
        o \in {x \in ScanOutcomes(found) : ~x.fails}, l \in Lists}

\* update, lines 314-333: the button "Load mod ordering" reads the ordering
\* of ModsConfig.xml, scans the installation, activates the mods of the
\* ordering and recomputes the issues.  Either read may fail and abort.
LoadModOrdering ==
    /\ pc = "ui"
    /\ game_path
    /\ \E input \in LoadInputs(installed) :
          /\ IF ~input.config_read
             THEN /\ pc' = "panicked"
                  /\ UNCHANGED <<active, inactive, issue_cache, currently_selected_mod, library_calls>>
             ELSE IF input.outcome.fails
             THEN /\ pc' = "panicked"
                  /\ active' = << >>
                  /\ inactive' = SubSeq(installed, 1, input.outcome.scanned)
                  /\ currently_selected_mod' = "none"
                  /\ UNCHANGED issue_cache
             ELSE LET lists == activate_known(<< >>, installed, input.ordering)
                  IN  /\ active' = lists[1]
                      /\ inactive' = lists[2]
                      /\ currently_selected_mod' = "none"
                      /\ issue_cache' = summarize_modlist_issues(db, active')
                      /\ pc' = detail_panel(currently_selected_mod', active', inactive')
    /\ UNCHANGED <<db, installed, game_path, entry_active, entry_inactive,
                   autofix_locals, library_calls, metadata_call>>
    /\ last_save' = NoSave

\* create_mod_list_panel, lines 231-252: a row of one list is dragged from
\* index `from` to the gap `to`; the issues are recomputed when the list is
\* the active one.
DragMod ==
    /\ pc = "ui"
    /\ \E is_active_list \in BOOLEAN :
          LET my_list == IF is_active_list THEN active ELSE inactive
          IN  \E from \in 0..(Len(my_list) - 1), to \in 0..Len(my_list) :
                LET dropped == IF from < to THEN move_index(my_list, from, to - 1)
                               ELSE IF from = to THEN my_list
                               ELSE move_index(my_list, from, to)
                IN  /\ IF is_active_list
                       THEN /\ active' = dropped
                            /\ issue_cache' = summarize_modlist_issues(db, active')
                            /\ UNCHANGED inactive
                       ELSE /\ inactive' = dropped
                            /\ UNCHANGED <<active, issue_cache>>
                    /\ pc' = detail_panel(currently_selected_mod, active', inactive')
    /\ UNCHANGED <<db, installed, game_path, currently_selected_mod,
                   entry_active, entry_inactive, autofix_locals, library_calls, metadata_call>>
    /\ last_save' = NoSave

\* create_mod_list_panel, lines 207-209 and 254-268: the toggle button of a
\* row moves the mod to the end of the other list, then the issues are
\* recomputed.
ToggleMod ==
    /\ pc = "ui"
    /\ \E is_active_list \in BOOLEAN :
          LET my_list == IF is_active_list THEN active ELSE inactive
              other_list == IF is_active_list THEN inactive ELSE active
          IN  \E mod_to_change \in Range(my_list) :
                /\ IF is_active_list
                   THEN /\ inactive' = insert(other_list, mod_to_change)
                        /\ active' = shift_remove(my_list, mod_to_change)
                   ELSE /\ active' = insert(other_list, mod_to_change)
                        /\ inactive' = shift_remove(my_list, mod_to_change)
                /\ issue_cache' = summarize_modlist_issues(db, active')
                /\ pc' = detail_panel(currently_selected_mod, active', inactive')
    /\ UNCHANGED <<db, installed, game_path, currently_selected_mod,
                   entry_active, entry_inactive, autofix_locals, library_calls, metadata_call>>
    /\ last_save' = NoSave

\* create_mod_list_panel, lines 216-223, and update, lines 400-412: the name
\* of a row is clicked and the mod becomes the selected one.
SelectMod ==
    /\ pc = "ui"
    /\ \E item \in Range(active) \cup Range(inactive) :
          /\ currently_selected_mod' = item
          /\ pc' = detail_panel(item, active, inactive)
    /\ UNCHANGED <<db, installed, game_path, active, inactive, issue_cache,
                   entry_active, entry_inactive, autofix_locals, library_calls, metadata_call>>
    /\ last_save' = NoSave

\* How the two file operations of "Save mod ordering" can end.
SaveOutcomes == {"read_failed", "write_failed", "written"}

\* Mutant: the stored issues are not looked at.
SaveModOrdering_unchecked ==
    /\ pc = "ui"
    /\ game_path
    /\ IF ~contains_key(active, CorePackage)
       THEN /\ last_save' = [NoSave EXCEPT !.modal = "missing_core"]
            /\ pc' = detail_panel(currently_selected_mod, active, inactive)
       ELSE \E outcome \in SaveOutcomes :
               IF outcome = "written"
               THEN /\ last_save' = [modal |-> "none", wrote |-> TRUE, list |-> active]
                    /\ pc' = detail_panel(currently_selected_mod, active, inactive)
               ELSE /\ last_save' = NoSave
                    /\ pc' = "panicked"
    /\ UNCHANGED <<db, active, inactive, issue_cache, installed, game_path,
                   currently_selected_mod, entry_active, entry_inactive,
                   autofix_locals, library_calls, metadata_call>>

\* update, lines 337-355: the button "Save mod ordering" opens an alert when
\* the active list lacks the core package, another when the stored issues
\* are not empty, and otherwise reads ModsConfig.xml, replaces its list of
\* active mods by the keys of the active list and writes it back.  Either
\* file operation may fail and abort.
SaveModOrdering ==
    /\ pc = "ui"
    /\ game_path
    /\ IF ~contains_key(active, CorePackage)
       THEN /\ last_save' = [NoSave EXCEPT !.modal = "missing_core"]
            /\ pc' = detail_panel(currently_selected_mod, active, inactive)
       ELSE IF DOMAIN issue_cache # {}
       THEN /\ last_save' = [NoSave EXCEPT !.modal = "unresolved_issues"]
            /\ pc' = detail_panel(currently_selected_mod, active, inactive)
       ELSE \E outcome \in SaveOutcomes :
               IF outcome = "written"
               THEN /\ last_save' = [modal |-> "none", wrote |-> TRUE, list |-> active]
                    /\ pc' = detail_panel(currently_selected_mod, active, inactive)
               ELSE /\ last_save' = NoSave
                    /\ pc' = "panicked"
    /\ UNCHANGED <<db, active, inactive, issue_cache, installed, game_path,
                   currently_selected_mod, entry_active, entry_inactive,
                   autofix_locals, library_calls, metadata_call>>

NextUI ==
    \/ ScanInstallation
    \/ PickGamePath
    \/ PickSteamPath
    \/ LoadModOrdering
    \/ DragMod
    \/ ToggleMod
    \/ SelectMod
    \/ SaveModOrdering

SpecUI == InitUI /\ [][NextUI]_vars

----------------------------------------------------------------------------
\* The two lists under every operation that changes them: a call of autofix
\* entered with any pair of disjoint lists, or the events of the window.

InitLists ==
    \/ InitUI
    \/ \E d \in InstalledMetadata \cup {CycleDb, DriftDb}, l \in ListPairs :
          InitWith(d, l[1], l[2])

NextLists ==
    \/ AutofixEntry
    \/ AutofixReturnTrue
    \/ AutofixAdvance
    \/ AutofixBudgetExhausted
    \/ AutofixMove
    \/ AutofixPromote
    \/ AutofixDependencyMissing
    \/ AutofixIncompatibility
    \/ ScanInstallation
    \/ PickGamePath
    \/ PickSteamPath
    \/ LoadModOrdering
    \/ DragMod
    \/ ToggleMod
    \/ SelectMod

SpecLists == InitLists /\ [][NextLists]_vars

\* No key occurs twice in the list.
NoDuplicate(list) == \A i \in 1..Len(list) : \A j \in 1..Len(list) : list[i] = list[j] => i = j

\* C15: no package is lost or duplicated.  While the program has not
\* aborted, after any sequence of autofix steps, or of toggles, drags and
\* loaded orderings since the last scan of the installation, every package
\* that was in one of the two lists (on entry to autofix, after the scan) is
\* in exactly one of them, once, and no package is in both.
C15_NoPackageLostOrDuplicated ==
    ~Panicked =>
        /\ Range(active) \cap Range(inactive) = {}
        /\ NoDuplicate(active)
        /\ NoDuplicate(inactive)
        /\ (Range(entry_active) \cup Range(entry_inactive))
              \subseteq (Range(active) \cup Range(inactive))

\* C15 witness: in the window, of three scanned mods two have been activated
\* in an order that is not the order of the scan, and one has stayed behind.
C15_Witness ==
    /\ pc = "ui"
    /\ Len(entry_inactive) = 3
    /\ Len(active) = 2
    /\ ~Sorted(active)
    /\ Len(inactive) = 1

----------------------------------------------------------------------------
\* C16: in the window, after every event that changes the active list (a
\* drag, a toggle, a loaded ordering, a scan that clears both lists) the
\* stored mod_list_issues is what the detector yields for the active list as
\* it now is.
C16_StoredIssuesCurrent ==
    pc = "ui" => issue_cache = summarize_modlist_issues(db, active)

----------------------------------------------------------------------------
\* One call of ModRules::merge.

\* Mutant: an entry that self already has is kept.
extend_kept(m, other) ==
    [k \in (DOMAIN m) \cup (DOMAIN other) |-> IF k \in DOMAIN m THEN m[k] ELSE other[k]]

\* HashMap::extend: every entry of other is inserted, replacing the value of
\* a key that is present.
extend(m, other) ==
    [k \in (DOMAIN m) \cup (DOMAIN other) |-> IF k \in DOMAIN other THEN other[k] ELSE m[k]]

\* ModRules::merge, lines 40-46.
merge(rules_self, other) ==
    [start_anchor |-> other.start_anchor,
     end_anchor |-> other.end_anchor,
     rules |-> extend(rules_self.rules, other.rules)]

\* The rule sets merged: any anchors, and a relation for any of two targets.
MergeTargets == {"a", "b"}

RuleMaps == UNION {[T -> Relations] : T \in SUBSET MergeTargets}

AllModRules ==
    {[start_anchor |-> s, end_anchor |-> e, rules |-> r] :
        s \in BOOLEAN, e \in BOOLEAN, r \in RuleMaps}

InitMerge ==
    \E s \in AllModRules, o \in AllModRules :
        /\ merge_self = s
        /\ merge_other = o
        /\ db = << >>
        /\ active = << >>
        /\ inactive = << >>
        /\ issue_cache = EmptyMap
        /\ pc = "merge"
        /\ infinite_loop_checker = 0
        /\ wrapped = FALSE
        /\ movement_reverse_tracker = EmptyMap
        /\ index = 0
        /\ selected = NoIssue
        /\ attempts = 0
        /\ entry_active = << >>
        /\ entry_inactive = << >>
        /\ entry_cache = EmptyMap
        /\ installed = << >>
        /\ game_path = FALSE
        /\ currently_selected_mod = "none"
        /\ last_save = NoSave
        /\ NoMetadataCall
        /\ last_added = EmptyMap
        /\ add_db_result = NoCall

\* self.merge(other), lines 40-46.
Merge ==
    /\ pc = "merge"
    /\ merge_self' = merge(merge_self, merge_other)
    /\ pc' = "merged"
    /\ UNCHANGED <<db, active, inactive, issue_cache, infinite_loop_checker,
                   wrapped, movement_reverse_tracker, index, selected, attempts,
                   entry_active, entry_inactive, entry_cache, installed,
                   game_path, currently_selected_mod, merge_other, last_added,
                   add_db_result, last_save, metadata_call>>

NextMerge == Merge

SpecMerge == InitMerge /\ [][NextMerge]_vars

\* C17, in every step of merge: afterwards the anchors of self are those of
\* other, the targets of self are those of both, every target of other has
\* the relation other gives it, and every target of self alone keeps its
\* relation.
C17_Step ==
    pc = "merge" =>
        /\ merge_self'.start_anchor = merge_other.start_anchor
        /\ merge_self'.end_anchor = merge_other.end_anchor
        /\ DOMAIN merge_self'.rules
              = (DOMAIN merge_self.rules) \cup (DOMAIN merge_other.rules)
        /\ \A t \in DOMAIN merge_other.rules :
              merge_self'.rules[t] = merge_other.rules[t]
        /\ \A t \in (DOMAIN merge_self.rules) \ (DOMAIN merge_other.rules) :
              merge_self'.rules[t] = merge_self.rules[t]

\* C17: merge of other into self overwrites the anchors and unites the
\* rules, other's entries winning.
C17_MergeOverwrites == [][C17_Step]_vars

\* C17 witness: a merge has been made in which other brought a target, self
\* kept a target of its own, and the anchors of other were set.
C17_Witness ==
    /\ pc = "merged"
    /\ merge_other.start_anchor /\ ~merge_other.end_anchor
    /\ DOMAIN merge_other.rules = {"a"}
    /\ DOMAIN merge_self.rules = {"a", "b"}
    /\ merge_self.rules["a"] # merge_self.rules["b"]

----------------------------------------------------------------------------
\* Calls of ModRuleDb::add_db on a database that holds the rules built from
\* the metadata or nothing.

\* The rule files that are added.
Paths == {"rules.toml", "extra.toml"}

\* What the rule files hold when they parse.
FileRules ==
    {{},
     {<<"a", "Before", "b">>},
     {<<"a", "Incompatibility", "b">>, <<"b", "Dependency", "c">>}}

\* add_db, lines 234-235: the file cannot be read, is not UTF-8, is not the
\* TOML of a rule map, or parses to a rule map.
FileOutcomes ==
    {[result |-> e, sets |-> EmptyMap] : e \in {"Err(io)", "Err(utf8)", "Err(toml)"}}
        \cup {[result |-> "Ok", sets |-> SourceOf("file", S).sets] : S \in FileRules}

\* The database holds a source under the key.
has_source(d, key) == \E i \in 1..Len(d) : d[i].key = key

\* Mutant: the source of a key that is present is moved to the end.
db_insert_moved(d, key, sets) ==
    Append(SelectSeq(d, LAMBDA x : x.key # key), [key |-> key, sets |-> sets])

\* IndexMap::insert, line 237: the value of a key that is present is
\* replaced where it is, a new key is appended.
db_insert(d, key, sets) ==
    IF has_source(d, key)
    THEN [i \in 1..Len(d) |-> IF d[i].key = key THEN [key |-> key, sets |-> sets] ELSE d[i]]
    ELSE Append(d, [key |-> key, sets |-> sets])

InitDb ==
    /\ db \in {<< >>} \cup {<<SourceOf(SourceKeys[1], S)>> : S \in FileRules}
    /\ active = << >>
    /\ inactive = << >>
    /\ issue_cache = EmptyMap
    /\ pc = "db"
    /\ infinite_loop_checker = 0
    /\ wrapped = FALSE
    /\ movement_reverse_tracker = EmptyMap
    /\ index = 0
    /\ selected = NoIssue
    /\ attempts = 0
    /\ entry_active = << >>
    /\ entry_inactive = << >>
    /\ entry_cache = EmptyMap
    /\ installed = << >>
    /\ game_path = FALSE
    /\ currently_selected_mod = "none"
    /\ last_save = NoSave
    /\ NoMetadataCall
    /\ NoLibraryCall

\* Mutant: the source is inserted before the file is parsed, empty when the
\* parse fails.
AddDb_early ==
    /\ pc = "db"
    /\ \E path \in Paths, file \in FileOutcomes :
          /\ add_db_result' = [path |-> path, result |-> file.result]
          /\ db' = db_insert(db, path, file.sets)
          /\ IF file.result = "Ok"
             THEN last_added' = MapInsert(last_added, path, file.sets)
             ELSE UNCHANGED last_added
    /\ UNCHANGED <<active, inactive, issue_cache, pc, infinite_loop_checker,
                   wrapped, movement_reverse_tracker, index, selected, attempts,
                   entry_active, entry_inactive, entry_cache, installed,
                   game_path, currently_selected_mod, merge_self, merge_other, last_save, metadata_call>>

\* add_db, lines 233-240: the `?` of lines 234-235 return the error before
\* the insert of line 237.
AddDb ==
    /\ pc = "db"
    /\ \E path \in Paths, file \in FileOutcomes :
          /\ add_db_result' = [path |-> path, result |-> file.result]
          /\ IF file.result = "Ok"
             THEN /\ db' = db_insert(db, path, file.sets)
                  /\ last_added' = MapInsert(last_added, path, file.sets)
             ELSE UNCHANGED <<db, last_added>>
    /\ UNCHANGED <<active, inactive, issue_cache, pc, infinite_loop_checker,
                   wrapped, movement_reverse_tracker, index, selected, attempts,
                   entry_active, entry_inactive, entry_cache, installed,
                   game_path, currently_selected_mod, merge_self, merge_other, last_save, metadata_call>>

NextDb == AddDb

SpecDb == InitDb /\ [][NextDb]_vars

\* C18, in every step: a call of add_db that returns an error leaves the
\* database as it was, its sources, their order and their rule sets.
C18_Step == (pc = "db" /\ add_db_result'.result # "Ok") => db' = db

\* C18: a failed add_db returns an error and changes nothing in the
\* database.
C18_FailedAddLeavesDb == [][C18_Step]_vars

\* C18 witness: add_db has failed on a file that is not TOML, for a path
\* that the database holds a source of, among other sources.
C18_Witness ==
    /\ pc = "db"
    /\ add_db_result.result = "Err(toml)"
    /\ has_source(db, add_db_result.path)
    /\ Len(db) = 3

\* The keys of the sources of the database, in order.
source_keys(d) == [i \in 1..Len(d) |-> d[i].key]

\* C19, in every state: the database holds one source per key, and for every
\* rule file exactly the rule sets of the last successful add_db of it (none
\* when no call for it has succeeded).
C19_State ==
    /\ NoDuplicate(source_keys(db))
    /\ \A path \in Paths :
          /\ has_source(db, path) <=> path \in DOMAIN last_added
          /\ \A i \in 1..Len(db) :
                db[i].key = path => db[i].sets = last_added[path]

\* C19, in every step: a successful add_db of a path that the database holds
\* replaces the rule sets of that source where it is and leaves the other
\* sources and the order; of a new path, it appends a source.
C19_Step ==
    (pc = "db" /\ add_db_result'.result = "Ok") =>
        LET path == add_db_result'.path
        IN  IF has_source(db, path)
            THEN /\ source_keys(db') = source_keys(db)
                 /\ \A i \in 1..Len(db) : db[i].key # path => db'[i] = db[i]
            ELSE /\ Len(db') = Len(db) + 1
                 /\ SubSeq(db', 1, Len(db)) = db
                 /\ db'[Len(db')].key = path

\* C19: a successful add_db replaces in place or appends, and the database
\* holds for every path what its last successful call read.
C19_AddReplacesOrAppends == [](C19_State) /\ [][C19_Step]_vars

\* C19 witness: the source of rules.toml has been replaced after extra.toml
\* was appended behind it, and it is still in front of it.
C19_Witness ==
    /\ pc = "db"
    /\ Len(db) = 3
    /\ db[2].key = "rules.toml"
    /\ db[3].key = "extra.toml"
    /\ add_db_result = [path |-> "rules.toml", result |-> "Ok"]
    /\ db[2].sets # EmptyMap

----------------------------------------------------------------------------
\* A step of autofix that repairs a Before or After issue by a move: the
\* only step that writes a flag of movement_reverse_tracker.
IsMoveStep == pc = "loop" /\ movement_reverse_tracker' # movement_reverse_tracker

\* The flag of the pair picked by the step, as the step found it.
FlagBefore ==
    MapGetOrDefault(movement_reverse_tracker,
                    tracker_key(selected'.package_id, selected'.problem_package_id),
                    FALSE)

\* The flag of the pair picked by the step, as the step leaves it.
FlagAfter ==
    MapGetOrDefault(movement_reverse_tracker',
                    tracker_key(selected'.package_id, selected'.problem_package_id),
                    FALSE)

\* C20 as stated, in every Before/After repair step on package p and target
\* t: with the flag false, t sits immediately before p afterwards; with the
\* flag true, p sits immediately before t; the flag is flipped.
C20_Step_AsStated ==
    IsMoveStep =>
        LET p == selected'.package_id
            t == selected'.problem_package_id
        IN  /\ IF ~FlagBefore
               THEN get_index_of(active', t) = get_index_of(active', p) - 1
               ELSE get_index_of(active', p) = get_index_of(active', t) - 1
            /\ FlagAfter = ~FlagBefore

C20_MoveByFlag_AsStated == [][C20_Step_AsStated]_vars

\* C20, in every Before/After repair step on package p and target t: with
\* the flag false, t is moved to the index p had; with the flag true, p is
\* moved to the index t had; either way the two end side by side in the
\* reverse of the order they had, and the flag is flipped.
C20_Step ==
    IsMoveStep =>
        LET p == selected'.package_id
            t == selected'.problem_package_id
        IN  /\ IF ~FlagBefore
               THEN get_index_of(active', t) = get_index_of(active, p)
               ELSE get_index_of(active', p) = get_index_of(active, t)
            /\ IF get_index_of(active, p) < get_index_of(active, t)
               THEN get_index_of(active', t) = get_index_of(active', p) - 1
               ELSE get_index_of(active', p) = get_index_of(active', t) - 1
            /\ FlagAfter = ~FlagBefore

C20_MoveByFlag == [][C20_Step]_vars

\* C20 witness: a pair has been repaired twice, once with its flag false and
\* once with it true, so that its flag is false again.
C20_Witness ==
    /\ pc = "loop"
    /\ \E k \in DOMAIN movement_reverse_tracker : ~movement_reverse_tracker[k]

----------------------------------------------------------------------------
\* The flag of a pair of packages taken without their order: each repair of
\* the pair, whichever of the two was the current package, flips it once.
UnorderedFlag(tracker, a, b) ==
    MapGetOrDefault(tracker, tracker_key(a, b), FALSE)
        # MapGetOrDefault(tracker, tracker_key(b, a), FALSE)

\* C21, in every Before/After repair step: the flag that the step reads for
\* the current package and the target is the flag of the two packages
\* without their order, so an encounter of (B, A) sees what an earlier
\* encounter of (A, B) left.
C21_Step ==
    IsMoveStep =>
        FlagBefore = UnorderedFlag(movement_reverse_tracker,
                                   selected'.package_id,
                                   selected'.problem_package_id)

\* C21: the toggle flag of autofix is keyed by the unordered pair.
C21_FlagOfUnorderedPair == [][C21_Step]_vars

----------------------------------------------------------------------------
\* A step of the branch of autofix without an issue (lines 125-132) that
\* stays in the loop.
IsAdvanceStep ==
    /\ pc = "loop" /\ pc' = "loop"
    /\ DOMAIN issue_cache # {}
    /\ ~HasIssue

\* A step of the branch of autofix with an issue that repairs (a move or a
\* promotion) and goes on to line 124.
IsRepairStep == pc = "loop" /\ pc' = "loop" /\ HasIssue

\* C22, in every step: the branch without an issue leaves the retry budget
\* as it is, and every pick of an issue for repair takes one from it.
C22_Step ==
    /\ IsAdvanceStep => infinite_loop_checker' = infinite_loop_checker
    /\ IsRepairStep => infinite_loop_checker' = infinite_loop_checker - 1

\* C22: the retry budget is consumed on the issue-found branch only.
C22_BudgetSpentOnRepairs == [][C22_Step]_vars

----------------------------------------------------------------------------
\* A step of autofix that promotes the target of a Dependency: the only step
\* that makes the active list longer.
IsPromoteStep == pc = "loop" /\ Len(active') > Len(active)

\* The keys of the list other than k, in the order of the list.
Others(list, k) == SelectSeq(list, LAMBDA x : x # k)

\* C23, in every Dependency repair step whose target is in the inactive
\* list: afterwards the target is the last key of the active list and is not
\* in the inactive list, and every other key of either list is where it was
\* relative to the others.
C23_Step ==
    IsPromoteStep =>
        LET t == selected'.problem_package_id
        IN  /\ selected'.relation = "Dependency"
            /\ contains_key(inactive, t)
            /\ active'[Len(active')] = t
            /\ ~contains_key(inactive', t)
            /\ Others(active', t) = active
            /\ inactive' = Others(inactive, t)

\* C23: a promotion appends the target to the active list and takes it out
\* of the inactive list, and moves nothing else.
C23_PromotionAppends == [][C23_Step]_vars

\* C23 witness: a promotion has appended a target to an active list of two,
\* taken from between two others of the inactive list or from its end.
C23_Witness ==
    /\ pc = "loop"
    /\ selected.relation = "Dependency"
    /\ Len(entry_active) = 2
    /\ Len(active) = 3
    /\ active[3] = selected.problem_package_id
    /\ SubSeq(active, 1, 2) = entry_active

----------------------------------------------------------------------------
\* Line 72 fetches the package at the index: at the head of every iteration
\* of the loop, that is with a cache that is not empty.
FetchesPackage == pc = "loop" /\ DOMAIN issue_cache # {}

\* C24, in every step: the index changes only in a step of the loop over a
\* package without an entry, to the next position or to 0 from the last one;
\* a repair leaves it where it is.
C24_Step ==
    /\ index' # index =>
          /\ FetchesPackage
          /\ ~HasIssue
          /\ index' = IF index = Len(active) - 1 THEN 0 ELSE index + 1
    /\ IsRepairStep => index' = index

\* C24: whenever autofix, entered with the detector's cache of its list,
\* fetches the package at the index, the index is a position of the active
\* list; and the index moves only as C24_Step says.
C24_CursorValid ==
    /\ [](FetchesPackage => (0 <= index /\ index < Len(active)))
    /\ [][C24_Step]_vars

\* C24 witness: a repair was made away from the head of the list and the
\* loop is about to fetch the last package of the list, the index still
\* where the steps over packages without an entry left it.
C24_Witness ==
    /\ FetchesPackage
    /\ attempts > 0
    /\ index > 0
    /\ index = Len(active) - 1
    /\ movement_reverse_tracker # EmptyMap

----------------------------------------------------------------------------
\* C25: in the cache that find_list_issues leaves, every key is a package of
\* the checked list and has at least one issue; so a cache that is not empty
\* comes from a list that is not empty, and the first issue of a package
\* with an entry exists.
C25_CacheKeysListedNonEmpty ==
    pc = "detected" =>
        /\ \A p \in DOMAIN issue_cache :
              /\ contains_key(active, p)
              /\ DOMAIN issue_cache[p] # {}
              /\ \E t \in Packages : IssueOf(issue_cache, p, t) \in Relations
        /\ (DOMAIN issue_cache # {} => Len(active) > 0)

\* C25 witness: the detector has left an entry for one package of the list
\* and none for another package of the list for which a source declares a
\* rule that the list meets.
C25_Witness ==
    /\ pc = "detected"
    /\ DOMAIN issue_cache # {}
    /\ \E p \in Range(active) \ DOMAIN issue_cache :
          \E t \in Packages : Declared(db, p, t) # {}

----------------------------------------------------------------------------
\* C27: in the cache that find_list_issues builds from one or two sources,
\* the target of a Dependency issue is not in the checked list and the
\* target of a Before, After or Incompatibility issue is in it, so that
\* get_index_of finds the target of every Before or After issue.
C27_TargetsPresentUnlessDependency ==
    pc = "detected" =>
        \A p \in DOMAIN issue_cache : \A t \in DOMAIN issue_cache[p] :
            IF issue_cache[p][t] = "Dependency"
            THEN ~contains_key(active, t)
            ELSE /\ issue_cache[p][t] \in {"Before", "After", "Incompatibility"}
                 /\ contains_key(active, t)
                 /\ get_index_of(active, t) \in 0..(Len(active) - 1)

\* C27 witness: two sources declare a Dependency of the same package each;
\* one target is missing and is recorded as Dependency, the other comes
\* after its dependent in the list and is recorded as After.
C27_Witness ==
    /\ pc = "detected"
    /\ Len(db) = 2
    /\ \E p \in DOMAIN issue_cache :
          \E t \in DOMAIN issue_cache[p] : \E u \in DOMAIN issue_cache[p] :
              /\ issue_cache[p][t] = "Dependency"
              /\ issue_cache[p][u] = "After"
              /\ <<1, "Dependency">> \in Declared(db, p, t)
              /\ <<2, "Dependency">> \in Declared(db, p, u)

----------------------------------------------------------------------------
\* C28, in every Before/After repair step on package p and target t: the
\* list violated the relation picked; whichever of the two came first comes
\* second afterwards, the two side by side, with the flag false as with the
\* flag true; and the new order does not violate the relation picked.
C28_Step ==
    IsMoveStep =>
        LET p == selected'.package_id
            t == selected'.problem_package_id
            rel == selected'.relation
        IN  /\ rel \in {"Before", "After"}
            /\ Violated(rel, p, t, active)
            /\ get_index_of(active, p) > get_index_of(active, t)
                  => get_index_of(active', p) + 1 = get_index_of(active', t)
            /\ get_index_of(active, p) < get_index_of(active, t)
                  => get_index_of(active', t) + 1 = get_index_of(active', p)
            /\ ~Violated(rel, p, t, active')

\* C28: a Before/After repair reverses the order of the pair, leaves the
\* pair adjacent and removes the violation picked.
C28_MoveReversesPair == [][C28_Step]_vars

\* C28 witness: the last repair was a move of a pair whose flag was true,
\* the pair having been repaired with the flag false before, and the list
\* meets the relation picked.
C28_Witness ==
    /\ pc = "loop"
    /\ attempts >= 2
    /\ selected.relation \in {"Before", "After"}
    /\ tracker_key(selected.package_id, selected.problem_package_id)
          \in DOMAIN movement_reverse_tracker
    /\ ~movement_reverse_tracker[tracker_key(selected.package_id,
                                             selected.problem_package_id)]
    /\ ~Violated(selected.relation, selected.package_id,
                 selected.problem_package_id, active)

----------------------------------------------------------------------------
\* C29, in every step of autofix: a Before/After repair keeps the members
\* of the active list, the inactive list and the database, and there is one
\* package without which the active list reads the same before and after;
\* and no step takes a package out of the active list.
C29_Step ==
    /\ IsMoveStep =>
          /\ Range(active') = Range(active)
          /\ Len(active') = Len(active)
          /\ inactive' = inactive
          /\ db' = db
          /\ \E m \in {selected'.package_id, selected'.problem_package_id} :
                Others(active', m) = Others(active, m)
    /\ Range(active) \subseteq Range(active')

\* C29: a Before/After repair changes the position of one package and
\* nothing else, and autofix never removes a package from the active list.
C29_MoveChangesOnePosition == [][C29_Step]_vars

\* C29 witness: a move has carried a package past at least one package that
\* is not its partner: the first and the last of a list of three have been
\* repaired and the one between them is no longer between them.
C29_Witness ==
    /\ pc = "loop"
    /\ selected.relation \in {"Before", "After"}
    /\ attempts = 1
    /\ Len(active) = 3
    /\ {entry_active[1], entry_active[3]}
          = {selected.package_id, selected.problem_package_id}
    /\ active[2] # entry_active[2]

----------------------------------------------------------------------------
\* C26, in every step of the window: when the step writes the ordering, the
\* active list it started from contains the core package and the stored
\* issues were empty; what is written is the active list, and the detector
\* finds no issue in it.
C26_Step ==
    last_save'.wrote =>
        /\ contains_key(active, CorePackage)
        /\ DOMAIN issue_cache = {}
        /\ last_save'.list = active
        /\ contains_key(last_save'.list, CorePackage)
        /\ find_list_issues(db, last_save'.list) = EmptyMap

\* C26: over any sequence of scans, loads, drags, toggles, selections and
\* saves, an ordering is written only from a list with the core package and
\* with no stored issue, and no written ordering has a detector issue.
C26_SavesOnlyCleanOrderings == [][C26_Step]_vars

\* C26 witness: an ordering of at least two mods has been written, the
\* metadata of one of them declaring a relation to another of them.
C26_Witness ==
    /\ last_save.wrote
    /\ Len(last_save.list) >= 2
    /\ \E p \in Range(last_save.list) : \E t \in Range(last_save.list) :
          Declared(db, p, t) # {}

----------------------------------------------------------------------------
\* C30: over any sequence of events of the window, the selected package,
\* when there is one, is a key of the active list or of the inactive list,
\* and the detail panel never reaches unreachable!().
C30_SelectionListed ==
    /\ pc # "unreachable"
    /\ currently_selected_mod # "none" =>
          \/ contains_key(active, currently_selected_mod)
          \/ contains_key(inactive, currently_selected_mod)

\* C30 witness: a mod is selected and has been toggled into the active list
\* since the last scan, with another mod left in the inactive list.
C30_Witness ==
    /\ pc = "ui"
    /\ currently_selected_mod # "none"
    /\ contains_key(active, currently_selected_mod)
    /\ contains_key(entry_inactive, currently_selected_mod)
    /\ Len(inactive) > 0

----------------------------------------------------------------------------
\* C31: the two detectors agree.  For every list and every database of one
\* source, the rule set of a package being the dependency_info of that
\* package, the cache that find_list_issues builds is the map that
\* summarize_modlist_issues returns: the same packages, the same targets,
\* the same relations.
C31_DetectorsAgree ==
    (pc = "detected" /\ Len(db) = 1) =>
        LET data == summarize_modlist_issues(db, active)
        IN  /\ DOMAIN data = DOMAIN issue_cache
            /\ \A p \in DOMAIN data :
                  /\ DOMAIN data[p] = DOMAIN issue_cache[p]
                  /\ \A t \in DOMAIN data[p] : data[p][t] = issue_cache[p][t]

\* C31 witness: one source, a package of the list with a Dependency on a
\* missing package and a Dependency on a package that comes after it; both
\* detectors record the first as Dependency and the second as After.
C31_Witness ==
    /\ pc = "detected"
    /\ Len(db) = 1
    /\ \E p \in Range(active) : \E t \in Packages : \E u \in Packages :
          /\ dependency_info(db, p) = (t :> "Dependency") @@ (u :> "Dependency")
          /\ t # u
          /\ IssueOf(issue_cache, p, t) = "Dependency"
          /\ IssueOf(issue_cache, p, u) = "After"
          /\ IssueOf(summarize_modlist_issues(db, active), p, t) = "Dependency"
          /\ IssueOf(summarize_modlist_issues(db, active), p, u) = "After"

----------------------------------------------------------------------------
\* One call of ModMetaData::get_dependency_information_for_version (xml.rs).
\* A Version is the sequence of its chunks; an About.xml is held by the
\* entries of its ten relation fields and its supported versions.

\* The relation fields of ModMetaData in the order lines 225-333 read them.
MetadataFields ==
    <<"load_before", "load_before_by_version", "force_load_before",
      "load_after", "load_after_by_version", "force_load_after",
      "mod_dependencies", "mod_dependencies_by_version",
      "incompatible_with", "incompatible_with_by_version">>

\* The fields that are maps from a Version to a list of packages.
ByVersionFields ==
    {"load_before_by_version", "load_after_by_version",
     "mod_dependencies_by_version", "incompatible_with_by_version"}

\* The relation that lines 225-333 give to the packages of a field.
relation_of_field(field) ==
    CASE field \in {"load_before", "load_before_by_version", "force_load_before"}
            -> "Before"
      [] field \in {"load_after", "load_after_by_version", "force_load_after"}
            -> "After"
      [] field \in {"mod_dependencies", "mod_dependencies_by_version"}
            -> "Dependency"
      [] field \in {"incompatible_with", "incompatible_with_by_version"}
            -> "Incompatibility"

\* The versions an About.xml names, as keys of its by-version fields and in
\* its supported versions: 1.4 and 1.4.0.
KeyVersions == {<<1, 4>>, <<1, 4, 0>>}

\* The versions of the game: Version.txt holds 1, 1.4.3 or 1.5.3.
GameVersions == {<<1>>, <<1, 4, 3>>, <<1, 5, 3>>}

\* The packages an About.xml names.
MetadataTargets == {"b", "c"}

\* Bound of the enumerated inputs: the number of entries of an About.xml.
MaxMetadataEntries == 3

\* An entry of a relation field: a package, under a version when the field
\* is by version.
MetadataEntries ==
    {[field |-> f, version |-> << >>, id |-> t] :
        f \in Range(MetadataFields) \ ByVersionFields, t \in MetadataTargets}
    \cup {[field |-> x[1], version |-> x[2], id |-> t] :
        x \in ByVersionFields \X KeyVersions, t \in MetadataTargets}

\* supported_versions: None, or the set of the versions listed.
SupportedVersions ==
    {[some |-> FALSE, list |-> {}]}
        \cup {[some |-> TRUE, list |-> L] : L \in SUBSET KeyVersions}

\* The sets of at most n entries.
RECURSIVE EntrySetsUpTo(_)
EntrySetsUpTo(n) ==
    IF n = 0 THEN {{}}
    ELSE LET smaller == EntrySetsUpTo(n - 1)
         IN  smaller \cup {F \cup {e} : F \in smaller, e \in MetadataEntries}

\* The About.xml files of at most MaxMetadataEntries entries.
AboutFiles ==
    {[supported_versions |-> sv, entries |-> E] :
        sv \in SupportedVersions, E \in EntrySetsUpTo(MaxMetadataEntries)}

\* Lines 187-194 and 214-222: the Version made of the first two chunks.
relevant_version(version) == <<version[1], version[2]>>

\* ModMetaData::does_mod_support_this_version, lines 186-206.
does_mod_support_this_version(about, version) ==
    IF about.supported_versions.some
    THEN relevant_version(version) \in about.supported_versions.list
    ELSE TRUE

\* The packages that a field contributes: its list, or what its map holds
\* under the relevant version (map.get(&relevant_version)).
field_ids(about, field, relevant) ==
    {e.id : e \in {x \in about.entries :
                      /\ x.field = field
                      /\ x.version = IF field \in ByVersionFields
                                     THEN relevant ELSE << >>}}

\* Mutant: a package that already has a relation keeps it.
extend_field_kept(data, about, field, relevant) ==
    extend_kept(data, [id \in field_ids(about, field, relevant) |-> relation_of_field(field)])

\* One `data.extend(...)` of lines 225-333.
extend_field(data, about, field, relevant) ==
    extend(data, [id \in field_ids(about, field, relevant) |-> relation_of_field(field)])

\* Lines 225-333: the fields extend the map one after the other.
RECURSIVE extend_fields(_, _, _, _)
extend_fields(data, about, fields, relevant) ==
    IF fields = << >> THEN data
    ELSE extend_fields(extend_field(data, about, Head(fields), relevant),
                       about, Tail(fields), relevant)

\* ModMetaData::get_dependency_information_for_version, lines 208-336.
get_dependency_information_for_version(about, version) ==
    IF ~does_mod_support_this_version(about, version)
    THEN EmptyMap
    ELSE extend_fields(EmptyMap, about, MetadataFields, relevant_version(version))

InitMetadata ==
    \E about \in AboutFiles, version \in GameVersions :
        /\ about_xml = about
        /\ game_version = version
        /\ dependency_information = EmptyMap
        /\ db = << >>
        /\ active = << >>
        /\ inactive = << >>
        /\ issue_cache = EmptyMap
        /\ pc = "metadata"
        /\ infinite_loop_checker = 0
        /\ wrapped = FALSE
        /\ movement_reverse_tracker = EmptyMap
        /\ index = 0
        /\ selected = NoIssue
        /\ attempts = 0
        /\ entry_active = << >>
        /\ entry_inactive = << >>
        /\ entry_cache = EmptyMap
        /\ installed = << >>
        /\ game_path = FALSE
        /\ currently_selected_mod = "none"
        /\ last_save = NoSave
        /\ NoLibraryCall

\* about_xml.get_dependency_information_for_version(game_version), as line
\* 125 of ui.rs calls it.  The index `version.chunks.0[1]` of line 218 aborts
\* on a version of one chunk.
GetDependencyInformation ==
    /\ pc = "metadata"
    /\ IF Len(game_version) < 2
       THEN /\ pc' = "panicked"
            /\ UNCHANGED dependency_information
       ELSE /\ dependency_information' =
                  get_dependency_information_for_version(about_xml, game_version)
            /\ pc' = "returned"
    /\ UNCHANGED <<db, active, inactive, issue_cache, infinite_loop_checker,
                   wrapped, movement_reverse_tracker, index, selected, attempts,
                   entry_active, entry_inactive, entry_cache, installed,
                   game_path, currently_selected_mod, about_xml, game_version,
                   library_calls, last_save>>

NextMetadata == GetDependencyInformation

SpecMetadata == InitMetadata /\ [][NextMetadata]_vars

\* The relation kinds under which the About.xml lists the package id, a
\* by-version entry counting when its version is the major.minor of the game.
ListedKinds(about, version, id) ==
    {relation_of_field(e.field) :
        e \in {x \in about.entries :
                  /\ x.id = id
                  /\ \/ x.version = << >>
                     \/ x.version = SubSeq(version, 1, 2)}}

\* The kind that wins: Incompatibility over Dependency over After over Before.
Prevailing(kinds) ==
    IF "Incompatibility" \in kinds THEN "Incompatibility"
    ELSE IF "Dependency" \in kinds THEN "Dependency"
    ELSE IF "After" \in kinds THEN "After"
    ELSE "Before"

\* The About.xml supports the game: it lists no supported versions, or it
\* lists the major.minor of the game.
Supports(about, version) ==
    \/ ~about.supported_versions.some
    \/ SubSeq(version, 1, 2) \in about.supported_versions.list

\* C32: what get_dependency_information_for_version returns.  For an
\* About.xml that does not support the game version, no relation at all;
\* otherwise, for every package, one relation exactly when the About.xml
\* lists the package under some kind, and then the kind that prevails among
\* those it is listed under (Incompatibility over Dependency over After
\* over Before), by-version entries counting only under the major.minor of
\* the game.
C32_OneRelationByPrecedence ==
    pc = "returned" =>
        IF ~Supports(about_xml, game_version)
        THEN dependency_information = EmptyMap
        ELSE /\ DOMAIN dependency_information \subseteq MetadataTargets
             /\ \A id \in MetadataTargets :
                   LET kinds == ListedKinds(about_xml, game_version, id)
                   IN  IF kinds = {}
                       THEN id \notin DOMAIN dependency_information
                       ELSE /\ id \in DOMAIN dependency_information
                            /\ dependency_information[id] = Prevailing(kinds)

\* C32 witness: the call has returned for an About.xml that supports the
\* game and lists one package under three kinds, the prevailing one in a
\* by-version field under the major.minor of the game.
C32_Witness ==
    /\ pc = "returned"
    /\ about_xml.supported_versions.some
    /\ Supports(about_xml, game_version)
    /\ \E id \in DOMAIN dependency_information :
          /\ Cardinality(ListedKinds(about_xml, game_version, id)) = 3
          /\ \E e \in about_xml.entries :
                /\ e.id = id
                /\ e.field \in ByVersionFields
                /\ e.version = SubSeq(game_version, 1, 2)
                /\ relation_of_field(e.field) = dependency_information[id]

====
